---- MODULE Spec2Model ----
(***************************************************************************)
(* Model of the listings app of alx_travel_app: the serializers (booking   *)
(* create / update, property, payment, review, message), the view sets     *)
(* with their row-level querysets and object permissions, the seed         *)
(* command, and the database rows they work on.                            *)
(*                                                                         *)
(* Money is counted in hundredths (Decimal with 2 places), dates are day   *)
(* ordinals.  A request is handled in one step, which leaves its response  *)
(* in `response`; Deliver hands the response to the client.  In the       *)
(* specification SpecConcurrent two creation requests are handled by two   *)
(* workers, each in two steps (is_valid, perform_create) that interleave.  *)
(***************************************************************************)
EXTENDS Integers, FiniteSets, Sequences, TLC

\* ---------------------------------------------------------------- bounds
MaxBookings == 1
MaxDate == 3
MaxMessages == 1

\* ------------------------------------------------------------- universe
Users == {"u1", "u2", "u3"}
ANON == "anon"
Actors == Users \cup {ANON}
ABSENT == "absent"

\* User.role (models.py RoleChoices)
role == [u \in Users |-> CASE u = "u1" -> "host" [] u = "u2" -> "guest" [] OTHER -> "admin"]

PropertyIds == {"p1", "p2"}
Dates == 1..MaxDate
BookingIds == 1..MaxBookings

\* Booking.BookingStatusChoices
BookingStatusChoices == {"pending", "confirmed", "canceled"}
PENDING == "pending"

\* the names under which a Property model declares the nightly price:
\* alx_travel_app/listings/models.py declares price_per_night; the model that
\* listings/management/seed.py and listings/serializers.py work on has
\* pricepernight
PropertyPriceFieldNames == {"price_per_night", "pricepernight"}

VARIABLES
    property_price_field,   \* the price field of the Property model in use
    properties,             \* property_id -> [host, price]
    bookings,               \* booking_id -> booking row
    payments,               \* set of payment rows
    messages,               \* set of message rows
    nextBooking,            \* next fresh booking id
    nextMessage,            \* next fresh message id
    reviews,                \* set of review rows
    nextReview,             \* next fresh review id
    users,                  \* the users that have a row in the user table
    inflight,               \* request -> the creation request being handled
    response                \* the response of the request just handled

vars == <<property_price_field, properties, bookings, payments, messages,
          nextBooking, nextMessage, reviews, nextReview, users, inflight, response>>

\* ------------------------------------------------------------ responses
\* a response records the request it answers: the action, the requester, the
\* booking addressed (0: none) and the payload handed to the serializer (the
\* empty payload when the request was refused before it got there); a date or
\* a total_price of 0 stands for a key the body does not carry
EmptyPayload ==
    [property_id |-> ABSENT, user_id |-> ABSENT, start_date |-> 0,
     end_date |-> 0, status |-> ABSENT, total_price |-> 0]

Idle ==
    [op |-> "none", actor |-> ANON, target |-> 0, req |-> EmptyPayload,
     outcome |-> "none", detail |-> "", result |-> {}]

Resp(op, actor, target, req, outcome, detail, result) ==
    [op |-> op, actor |-> actor, target |-> target, req |-> req,
     outcome |-> outcome, detail |-> detail, result |-> result]

\* --------------------------------------------------------------- models
\* getattr(property_instance, name): the Property model has the attribute
PropertyHasAttr(name) == name = property_price_field

\* Message model fields (models.py)
MessageModelFields ==
    {"message_id", "sender", "recipient", "message_body", "sent_at"}

\* ---------------------------------------------------------- serializers
\* NestedPropertySerializer.Meta.fields names the price `pricepernight`; a
\* ModelSerializer whose Meta.fields names something the model lacks raises
\* ImproperlyConfigured when its fields are built
NestedPropertySerializer_fields_ok == PropertyHasAttr("pricepernight")

\* (variant) read_only_fields without 'status': the client's status is written
BookingSerializer_read_only_fields_writable_status ==
    {"booking_id", "total_price", "created_at"}

\* (variant) read_only_fields without 'total_price': the client's total is written
BookingSerializer_read_only_fields_writable_total ==
    {"booking_id", "status", "created_at"}

\* BookingSerializer.Meta.read_only_fields
BookingSerializer_read_only_fields ==
    {"booking_id", "total_price", "status", "created_at"}

\* rendering a booking renders its nested property
BookingSerializer_data_ok == NestedPropertySerializer_fields_ok

\* MessageSerializer: Meta.fields minus the declared fields must be model fields
MessageSerializer_declared ==
    {"sender", "receiver", "parent_message", "sender_id", "receiver_id",
     "parent_message_id"}
MessageSerializer_Meta_fields ==
    {"message_id", "sender", "sender_id", "receiver", "receiver_id",
     "parent_message", "parent_message_id", "message_body", "sent_at",
     "is_read", "edited", "edited_at"}
MessageSerializer_fields_ok ==
    (MessageSerializer_Meta_fields \ MessageSerializer_declared)
        \subseteq MessageModelFields

\* PaymentSerializer nests a BookingSerializer
PaymentSerializer_data_ok == BookingSerializer_data_ok

\* BookingSerializer field validation (is_valid): required writable fields,
\* primary keys resolved against their querysets, read-only fields dropped
BookingSerializer_is_valid(data, partial) ==
    /\ partial \/ ( /\ data.property_id # ABSENT
                    /\ data.user_id # ABSENT
                    /\ data.start_date # 0
                    /\ data.end_date # 0 )
    /\ data.property_id \in {ABSENT} \cup DOMAIN properties
    /\ data.user_id \in {ABSENT} \cup users

BookingSerializer_validated_data(data) ==
    [property   |-> data.property_id,
     user       |-> data.user_id,
     start_date |-> data.start_date,
     end_date   |-> data.end_date,
     status     |-> IF "status" \in BookingSerializer_read_only_fields
                    THEN ABSENT ELSE data.status,
     total_price |-> IF "total_price" \in BookingSerializer_read_only_fields
                     THEN 0 ELSE data.total_price]

\* (variant) create that counts the days inclusively
BookingSerializer_create_inclusive(validated_data) ==
    LET num_nights == validated_data.end_date - validated_data.start_date + 1
    IN  IF validated_data.start_date >= validated_data.end_date
        THEN [outcome |-> "ValidationError",
              detail |-> "End date must be after start date.",
              instance |-> <<>>]
        ELSE IF ~PropertyHasAttr("pricepernight")
        THEN [outcome |-> "ServerError", detail |-> "AttributeError",
              instance |-> <<>>]
        ELSE [outcome |-> "created", detail |-> "",
              instance |->
                [property    |-> validated_data.property,
                 user        |-> validated_data.user,
                 start_date  |-> validated_data.start_date,
                 end_date    |-> validated_data.end_date,
                 total_price |-> properties[validated_data.property].price * num_nights,
                 status      |-> IF validated_data.status = ABSENT
                                 THEN PENDING ELSE validated_data.status]]

\* (variant) create without the two date checks
BookingSerializer_create_unchecked(validated_data) ==
    LET num_nights == validated_data.end_date - validated_data.start_date
    IN  IF ~PropertyHasAttr("pricepernight")
        THEN [outcome |-> "ServerError", detail |-> "AttributeError",
              instance |-> <<>>]
        ELSE [outcome |-> "created", detail |-> "",
              instance |->
                [property    |-> validated_data.property,
                 user        |-> validated_data.user,
                 start_date  |-> validated_data.start_date,
                 end_date    |-> validated_data.end_date,
                 total_price |-> properties[validated_data.property].price * num_nights,
                 status      |-> IF validated_data.status = ABSENT
                                 THEN PENDING ELSE validated_data.status]]

\* (variant) create whose date-order check lets equal dates through
BookingSerializer_create_lenient_order(validated_data) ==
    LET num_nights == validated_data.end_date - validated_data.start_date
    IN  IF validated_data.start_date > validated_data.end_date
        THEN [outcome |-> "ValidationError",
              detail |-> "End date must be after start date.",
              instance |-> <<>>]
        ELSE IF num_nights <= 0
        THEN [outcome |-> "ValidationError",
              detail |-> "Booking must be for at least one night.",
              instance |-> <<>>]
        ELSE IF ~PropertyHasAttr("pricepernight")
        THEN [outcome |-> "ServerError", detail |-> "AttributeError",
              instance |-> <<>>]
        ELSE [outcome |-> "created", detail |-> "",
              instance |->
                [property    |-> validated_data.property,
                 user        |-> validated_data.user,
                 start_date  |-> validated_data.start_date,
                 end_date    |-> validated_data.end_date,
                 total_price |-> properties[validated_data.property].price * num_nights,
                 status      |-> IF validated_data.status = ABSENT
                                 THEN PENDING ELSE validated_data.status]]

\* BookingSerializer.create
BookingSerializer_create(validated_data) ==
    LET property_instance == validated_data.property
        start_date == validated_data.start_date
        end_date == validated_data.end_date
        num_nights == end_date - start_date
    IN  IF start_date >= end_date
        THEN [outcome |-> "ValidationError",
              detail |-> "End date must be after start date.",
              instance |-> <<>>]
        ELSE IF num_nights <= 0
        THEN [outcome |-> "ValidationError",
              detail |-> "Booking must be for at least one night.",
              instance |-> <<>>]
        ELSE IF ~PropertyHasAttr("pricepernight")
        THEN [outcome |-> "ServerError", detail |-> "AttributeError",
              instance |-> <<>>]
        ELSE [outcome |-> "created", detail |-> "",
              instance |->
                [property    |-> property_instance,
                 user        |-> validated_data.user,
                 start_date  |-> start_date,
                 end_date    |-> end_date,
                 total_price |-> properties[property_instance].price * num_nights,
                 status      |-> IF validated_data.status = ABSENT
                                 THEN PENDING ELSE validated_data.status]]

\* (variant) update that writes property and user like any other field
BookingSerializer_update_mutable(instance, validated_data) ==
    [outcome |-> "ok", detail |-> "",
     instance |->
       [instance EXCEPT
          !.property = IF validated_data.property # ABSENT
                       THEN validated_data.property ELSE @,
          !.user = IF validated_data.user # ABSENT
                   THEN validated_data.user ELSE @,
          !.start_date = IF validated_data.start_date # 0
                         THEN validated_data.start_date ELSE @,
          !.end_date = IF validated_data.end_date # 0
                       THEN validated_data.end_date ELSE @]]

\* (variant) update that rejects a property or user only when its value differs
\* from the stored one
BookingSerializer_update_on_change(instance, validated_data) ==
    IF \/ validated_data.property \notin {ABSENT, instance.property}
       \/ validated_data.user \notin {ABSENT, instance.user}
    THEN [outcome |-> "ValidationError",
          detail |-> "Property and user cannot be changed after booking creation.",
          instance |-> instance]
    ELSE [outcome |-> "ok", detail |-> "",
          instance |->
            [instance EXCEPT
               !.status = IF validated_data.status # ABSENT
                          THEN validated_data.status ELSE @,
               !.start_date = IF validated_data.start_date # 0
                              THEN validated_data.start_date ELSE @,
               !.end_date = IF validated_data.end_date # 0
                            THEN validated_data.end_date ELSE @,
               !.total_price = IF validated_data.total_price # 0
                               THEN validated_data.total_price ELSE @]]

\* BookingSerializer.update
BookingSerializer_update(instance, validated_data) ==
    IF validated_data.property # ABSENT \/ validated_data.user # ABSENT
    THEN [outcome |-> "ValidationError",
          detail |-> "Property and user cannot be changed after booking creation.",
          instance |-> instance]
    ELSE [outcome |-> "ok", detail |-> "",
          instance |->
            [instance EXCEPT
               !.status = IF validated_data.status # ABSENT
                          THEN validated_data.status ELSE @,
               !.start_date = IF validated_data.start_date # 0
                              THEN validated_data.start_date ELSE @,
               !.end_date = IF validated_data.end_date # 0
                            THEN validated_data.end_date ELSE @,
               !.total_price = IF validated_data.total_price # 0
                               THEN validated_data.total_price ELSE @]]

\* ---------------------------------------------------------- permissions
\* variant: no authentication required
IsAuthenticated_anyone(actor) == TRUE

\* request.user.is_authenticated: the caller is a user
IsAuthenticated(actor) == actor \in users

SAFE_METHODS == {"GET", "HEAD", "OPTIONS"}

Method(action) ==
    CASE action = "update" -> "PUT"
      [] action = "partial_update" -> "PATCH"
      [] action = "destroy" -> "DELETE"
      [] action = "create" -> "POST"
      [] OTHER -> "GET"

\* (variant) object permission that also lets the property's host write
IsBookingOwner_or_host(actor, method, obj) ==
    \/ method \in SAFE_METHODS
    \/ obj.user = actor
    \/ properties[obj.property].host = actor

\* IsBookingOwner.has_object_permission
IsBookingOwner(actor, method, obj) ==
    method \in SAFE_METHODS \/ obj.user = actor

\* BookingViewSet.get_permissions: the object permissions of an action
BookingViewSet_object_permission(actor, action, obj) ==
    IF action \in {"update", "partial_update", "destroy"}
    THEN IsBookingOwner(actor, Method(action), obj)
    ELSE TRUE

\* ------------------------------------------------------------ querysets
\* (variant) queryset without the row-level filter
BookingViewSet_get_queryset_all(actor) ==
    IF IsAuthenticated(actor) THEN DOMAIN bookings ELSE {}

\* BookingViewSet.get_queryset
BookingViewSet_get_queryset(actor) ==
    IF IsAuthenticated(actor)
    THEN {id \in DOMAIN bookings :
            \/ bookings[id].user = actor
            \/ properties[bookings[id].property].host = actor}
    ELSE {}

\* PaymentViewSet.get_queryset
PaymentViewSet_get_queryset(actor) ==
    IF IsAuthenticated(actor)
    THEN {p \in payments :
            \/ bookings[p.booking].user = actor
            \/ properties[bookings[p.booking].property].host = actor}
    ELSE {}

\* MessageViewSet.get_queryset
MessageViewSet_get_queryset(actor) ==
    IF IsAuthenticated(actor)
    THEN {m \in messages : m.sender = actor \/ m.recipient = actor}
    ELSE {}

\* (variant) get_object that looks the id up in Booking.objects.all()
BookingViewSet_get_object_unscoped(actor, action, id) ==
    IF ~IsAuthenticated(actor) THEN "AuthenticationError"
    ELSE IF id \notin DOMAIN bookings THEN "NotFoundError"
    ELSE IF action \in {"update", "partial_update", "destroy"}
            /\ bookings[id].user # actor
    THEN "PermissionError"
    ELSE "ok"

\* the outcome of permission checks and get_object for a detail route
BookingViewSet_get_object(actor, action, id) ==
    IF ~IsAuthenticated(actor) THEN "AuthenticationError"
    ELSE IF id \notin BookingViewSet_get_queryset(actor) THEN "NotFoundError"
    ELSE IF ~BookingViewSet_object_permission(actor, action, bookings[id])
    THEN "PermissionError"
    ELSE "ok"

\* ------------------------------------------------------------- requests
\* POST bodies: a stay from day 1 to any day (day 1 included) or from the
\* last day back to day 1
CreatePayloads ==
    [property_id : {"p1"}, user_id : {ABSENT, "u3"},
     start_date : {1}, end_date : Dates, status : {ABSENT, "confirmed"},
     total_price : {0}]
    \cup [property_id : {"p1"}, user_id : {"u3"},
          start_date : {MaxDate}, end_date : {1}, status : {ABSENT},
          total_price : {0}]

\* PATCH bodies: one field each (a status, the earliest or latest end date,
\* a property, a user, a total_price of 0.01)
PatchPayloads ==
    {[EmptyPayload EXCEPT !.status = s] : s \in BookingStatusChoices}
    \cup {[EmptyPayload EXCEPT !.end_date = d] : d \in {1, MaxDate}}
    \cup {[EmptyPayload EXCEPT !.property_id = p] : p \in PropertyIds}
    \cup {[EmptyPayload EXCEPT !.user_id = "u3"]}
    \cup {[EmptyPayload EXCEPT !.total_price = 1]}

\* PUT bodies: every required field, or the status alone
PutPayloads ==
    [property_id : PropertyIds, user_id : {"u3"},
     start_date : {1}, end_date : {MaxDate}, status : {ABSENT},
     total_price : {0}]
    \cup {[EmptyPayload EXCEPT !.status = "confirmed"]}

\* ------------------------------------------------------ booking actions
\* POST /bookings/ : CreateModelMixin.create with BookingViewSet.perform_create
BookingViewSet_create(actor, data) ==
    /\ response = Idle
    /\ nextBooking <= MaxBookings
    /\ UNCHANGED <<property_price_field, properties, payments, messages, nextMessage, reviews, nextReview, users, inflight>>
    /\ IF ~IsAuthenticated(actor)
       THEN /\ response' = Resp("create", actor, 0, EmptyPayload,
                                 "AuthenticationError", "", {})
            /\ UNCHANGED <<bookings, nextBooking>>
       ELSE IF ~BookingSerializer_is_valid(data, FALSE)
       THEN /\ response' = Resp("create", actor, 0, data, "ValidationError", "invalid", {})
            /\ UNCHANGED <<bookings, nextBooking>>
       ELSE LET validated_data ==
                    [BookingSerializer_validated_data(data) EXCEPT !.user = actor]
                r == BookingSerializer_create(validated_data)
            IN  IF r.outcome # "created"
                THEN /\ response' = Resp("create", actor, 0, data, r.outcome, r.detail, {})
                     /\ UNCHANGED <<bookings, nextBooking>>
                ELSE /\ bookings' = bookings @@ (nextBooking :> r.instance)
                     /\ nextBooking' = nextBooking + 1
                     /\ response' =
                          IF BookingSerializer_data_ok
                          THEN Resp("create", actor, nextBooking, data, "created", "", {})
                          ELSE Resp("create", actor, nextBooking, data, "ServerError",
                                    "ImproperlyConfigured", {})

\* PUT / PATCH /bookings/{id}/ : UpdateModelMixin.update
BookingViewSet_update(actor, id, data, partial) ==
    LET action == IF partial THEN "partial_update" ELSE "update"
        access == BookingViewSet_get_object(actor, action, id)
    IN
    /\ response = Idle
    /\ UNCHANGED <<property_price_field, properties, payments, messages,
                   nextBooking, nextMessage, reviews, nextReview, users, inflight>>
    /\ IF access # "ok"
       THEN /\ response' = Resp(action, actor, id, EmptyPayload, access, "", {})
            /\ UNCHANGED bookings
       ELSE IF ~BookingSerializer_is_valid(data, partial)
       THEN /\ response' = Resp(action, actor, id, data, "ValidationError", "invalid", {})
            /\ UNCHANGED bookings
       ELSE LET r == BookingSerializer_update(bookings[id],
                                              BookingSerializer_validated_data(data))
            IN  IF r.outcome # "ok"
                THEN /\ response' = Resp(action, actor, id, data, r.outcome, r.detail, {})
                     /\ UNCHANGED bookings
                ELSE /\ bookings' = [bookings EXCEPT ![id] = r.instance]
                     /\ response' =
                          IF BookingSerializer_data_ok
                          THEN Resp(action, actor, id, data, "ok", "", {})
                          ELSE Resp(action, actor, id, data, "ServerError",
                                    "ImproperlyConfigured", {})

\* variant: Payment.booking without on_delete=CASCADE semantics (the payments of
\* a deleted booking stay)
BookingViewSet_destroy_no_cascade(actor, id) ==
    LET access == BookingViewSet_get_object(actor, "destroy", id) IN
    /\ response = Idle
    /\ UNCHANGED <<property_price_field, properties, messages, nextBooking, nextMessage, reviews, nextReview, users, inflight>>
    /\ IF access # "ok"
       THEN /\ response' = Resp("destroy", actor, id, EmptyPayload, access, "", {})
            /\ UNCHANGED <<bookings, payments>>
       ELSE /\ bookings' = [i \in DOMAIN bookings \ {id} |-> bookings[i]]
            /\ UNCHANGED payments
            /\ response' = Resp("destroy", actor, id, EmptyPayload, "no_content", "", {})

\* DELETE /bookings/{id}/ : DestroyModelMixin.destroy; payments cascade
BookingViewSet_destroy(actor, id) ==
    LET access == BookingViewSet_get_object(actor, "destroy", id) IN
    /\ response = Idle
    /\ UNCHANGED <<property_price_field, properties, messages, nextBooking, nextMessage, reviews, nextReview, users, inflight>>
    /\ IF access # "ok"
       THEN /\ response' = Resp("destroy", actor, id, EmptyPayload, access, "", {})
            /\ UNCHANGED <<bookings, payments>>
       ELSE /\ bookings' = [i \in DOMAIN bookings \ {id} |-> bookings[i]]
            /\ payments' = {p \in payments : p.booking # id}
            /\ response' = Resp("destroy", actor, id, EmptyPayload, "no_content", "", {})

\* GET /bookings/{id}/ : RetrieveModelMixin.retrieve
BookingViewSet_retrieve(actor, id) ==
    LET access == BookingViewSet_get_object(actor, "retrieve", id) IN
    /\ response = Idle
    /\ UNCHANGED <<property_price_field, properties, bookings, payments, messages,
                   nextBooking, nextMessage, reviews, nextReview, users, inflight>>
    /\ response' =
         IF access # "ok"
         THEN Resp("retrieve", actor, id, EmptyPayload, access, "", {})
         ELSE IF ~BookingSerializer_data_ok
         THEN Resp("retrieve", actor, id, EmptyPayload, "ServerError",
                   "ImproperlyConfigured", {})
         ELSE Resp("retrieve", actor, id, EmptyPayload, "ok", "", {id})

\* GET /bookings/ : ListModelMixin.list
BookingViewSet_list(actor) ==
    LET qs == BookingViewSet_get_queryset(actor) IN
    /\ response = Idle
    /\ UNCHANGED <<property_price_field, properties, bookings, payments, messages,
                   nextBooking, nextMessage, reviews, nextReview, users, inflight>>
    /\ response' =
         IF ~IsAuthenticated(actor)
         THEN Resp("list_bookings", actor, 0, EmptyPayload, "AuthenticationError", "", {})
         ELSE IF qs # {} /\ ~BookingSerializer_data_ok
         THEN Resp("list_bookings", actor, 0, EmptyPayload, "ServerError",
                   "ImproperlyConfigured", {})
         ELSE Resp("list_bookings", actor, 0, EmptyPayload, "ok", "", qs)

\* GET /payments/
PaymentViewSet_list(actor) ==
    LET qs == PaymentViewSet_get_queryset(actor) IN
    /\ response = Idle
    /\ UNCHANGED <<property_price_field, properties, bookings, payments, messages,
                   nextBooking, nextMessage, reviews, nextReview, users, inflight>>
    /\ response' =
         IF ~IsAuthenticated(actor)
         THEN Resp("list_payments", actor, 0, EmptyPayload, "AuthenticationError", "", {})
         ELSE IF qs # {} /\ ~PaymentSerializer_data_ok
         THEN Resp("list_payments", actor, 0, EmptyPayload, "ServerError",
                   "ImproperlyConfigured", {})
         ELSE Resp("list_payments", actor, 0, EmptyPayload, "ok", "",
                   {p.booking : p \in qs})

\* GET /messages/
MessageViewSet_list(actor) ==
    LET qs == MessageViewSet_get_queryset(actor) IN
    /\ response = Idle
    /\ UNCHANGED <<property_price_field, properties, bookings, payments, messages,
                   nextBooking, nextMessage, reviews, nextReview, users, inflight>>
    /\ response' =
         IF ~IsAuthenticated(actor)
         THEN Resp("list_messages", actor, 0, EmptyPayload, "AuthenticationError", "", {})
         ELSE IF qs # {} /\ ~MessageSerializer_fields_ok
         THEN Resp("list_messages", actor, 0, EmptyPayload, "ServerError",
                   "ImproperlyConfigured", {})
         ELSE Resp("list_messages", actor, 0, EmptyPayload, "ok", "",
                   {m.id : m \in qs})

\* ------------------------------------------------------ payment actions
\* User.is_staff as seed.py sets it: staff are the users of role admin
is_staff == [u \in Users |-> role[u] = "admin"]

\* rest_framework IsAdminUser.has_permission: request.user.is_staff
IsAdminUser(actor) == actor \in users /\ is_staff[actor]

\* the body of a payment request: booking_id 0 and amount -1 stand for keys
\* the body does not carry
NoAmount == 0 - 1
PaymentRequest(booking_id, amount) ==
    [booking_id |-> booking_id, amount |-> amount]

\* PaymentSerializer field validation: booking_id and amount are required,
\* booking_id is resolved against Booking.objects.all()
PaymentSerializer_is_valid(data, partial) ==
    /\ partial \/ (data.booking_id # 0 /\ data.amount # NoAmount)
    /\ data.booking_id \in {0} \cup DOMAIN bookings

\* ModelSerializer.update on a Payment: booking_id (declared without source)
\* is written as a Booking instance into the key column and the save fails
PaymentSerializer_update(instance, validated_data) ==
    IF validated_data.booking_id # 0
    THEN [outcome |-> "ServerError", detail |-> "django ValidationError",
          instance |-> instance]
    ELSE [outcome |-> "ok", detail |-> "",
          instance |-> [instance EXCEPT
                          !.amount = IF validated_data.amount # NoAmount
                                     THEN validated_data.amount ELSE @]]

\* the payment of a booking, addressed by the booking's id
PaymentOf(id) == CHOOSE p \in payments : p.booking = id

\* PaymentViewSet.get_permissions + get_object for update and destroy
PaymentViewSet_get_object(actor, action, id) ==
    IF ~IsAuthenticated(actor) THEN "AuthenticationError"
    ELSE IF action \in {"update", "partial_update", "destroy"} /\ ~IsAdminUser(actor)
    THEN "PermissionError"
    ELSE IF \A p \in PaymentViewSet_get_queryset(actor) : p.booking # id
    THEN "NotFoundError"
    ELSE "ok"

\* PUT / PATCH /payments/{id}/
PaymentViewSet_update(actor, id, data, partial) ==
    LET action == IF partial THEN "partial_update" ELSE "update"
        op == IF partial THEN "partial_update_payment" ELSE "update_payment"
        access == PaymentViewSet_get_object(actor, action, id)
    IN
    /\ response = Idle
    /\ UNCHANGED <<property_price_field, properties, bookings, messages,
                   nextBooking, nextMessage, reviews, nextReview, users, inflight>>
    /\ IF access # "ok"
       THEN /\ response' = Resp(op, actor, id, PaymentRequest(0, NoAmount), access, "", {})
            /\ UNCHANGED payments
       ELSE IF ~PaymentSerializer_is_valid(data, partial)
       THEN /\ response' = Resp(op, actor, id, data, "ValidationError", "invalid", {})
            /\ UNCHANGED payments
       ELSE LET r == PaymentSerializer_update(PaymentOf(id), data) IN
            IF r.outcome # "ok"
            THEN /\ response' = Resp(op, actor, id, data, r.outcome, r.detail, {})
                 /\ UNCHANGED payments
            ELSE /\ payments' = (payments \ {PaymentOf(id)}) \cup {r.instance}
                 /\ response' =
                      IF PaymentSerializer_data_ok
                      THEN Resp(op, actor, id, data, "ok", "", {})
                      ELSE Resp(op, actor, id, data, "ServerError",
                                "ImproperlyConfigured", {})

\* DELETE /payments/{id}/
PaymentViewSet_destroy(actor, id) ==
    LET access == PaymentViewSet_get_object(actor, "destroy", id) IN
    /\ response = Idle
    /\ UNCHANGED <<property_price_field, properties, bookings, messages,
                   nextBooking, nextMessage, reviews, nextReview, users, inflight>>
    /\ IF access # "ok"
       THEN /\ response' = Resp("destroy_payment", actor, id, PaymentRequest(0, NoAmount),
                                 access, "", {})
            /\ UNCHANGED payments
       ELSE /\ payments' = payments \ {PaymentOf(id)}
            /\ response' = Resp("destroy_payment", actor, id, PaymentRequest(0, NoAmount),
                                 "no_content", "", {})

\* ModelSerializer.create on a Payment: booking_id (declared without source)
\* reaches Payment.objects.create as a Booking instance in the key column and
\* the save fails
PaymentSerializer_create(validated_data) ==
    [outcome |-> "ServerError", detail |-> "django ValidationError"]

\* POST /payments/ : CreateModelMixin.create
PaymentViewSet_create(actor, data) ==
    /\ response = Idle
    /\ UNCHANGED <<property_price_field, properties, bookings, payments, messages,
                   nextBooking, nextMessage, reviews, nextReview, users, inflight>>
    /\ response' =
         IF ~IsAuthenticated(actor)
         THEN Resp("create_payment", actor, 0, PaymentRequest(0, NoAmount),
                   "AuthenticationError", "", {})
         ELSE IF ~PaymentSerializer_is_valid(data, FALSE)
         THEN Resp("create_payment", actor, 0, data, "ValidationError", "invalid", {})
         ELSE LET r == PaymentSerializer_create(data) IN
              Resp("create_payment", actor, 0, data, r.outcome, r.detail, {})

\* GET /payments/{id}/ : RetrieveModelMixin.retrieve
PaymentViewSet_retrieve(actor, id) ==
    LET access == PaymentViewSet_get_object(actor, "retrieve", id) IN
    /\ response = Idle
    /\ UNCHANGED <<property_price_field, properties, bookings, payments, messages,
                   nextBooking, nextMessage, reviews, nextReview, users, inflight>>
    /\ response' =
         IF access # "ok"
         THEN Resp("retrieve_payment", actor, id, PaymentRequest(0, NoAmount), access, "", {})
         ELSE IF ~PaymentSerializer_data_ok
         THEN Resp("retrieve_payment", actor, id, PaymentRequest(0, NoAmount),
                   "ServerError", "ImproperlyConfigured", {})
         ELSE Resp("retrieve_payment", actor, id, PaymentRequest(0, NoAmount), "ok", "", {id})

\* --------------------------------------------------------- user actions
\* the users endpoint is addressed with a user id (ABSENT on the collection
\* route)
UserRequest(user_id) == [user_id |-> user_id]

\* variant: the users endpoint behind IsAuthenticated
AllowAny_authenticated(actor) == actor \in users

\* rest_framework AllowAny.has_permission
AllowAny(actor) == TRUE

\* the methods ReadOnlyModelViewSet has no handler for
UnsafeMethods == {"POST", "PUT", "PATCH", "DELETE"}

\* GET /users/ : ReadOnlyModelViewSet.list over User.objects.all(), AllowAny
UserViewSet_list(actor) ==
    /\ response = Idle
    /\ UNCHANGED <<property_price_field, properties, bookings, payments, messages,
                   nextBooking, nextMessage, reviews, nextReview, users, inflight>>
    /\ response' =
         IF ~AllowAny(actor)
         THEN Resp("list_users", actor, 0, UserRequest(ABSENT), "AuthenticationError", "", {})
         ELSE Resp("list_users", actor, 0, UserRequest(ABSENT), "ok", "", users)

\* GET /users/{user_id}/ : ReadOnlyModelViewSet.retrieve, AllowAny
UserViewSet_retrieve(actor, user_id) ==
    /\ response = Idle
    /\ UNCHANGED <<property_price_field, properties, bookings, payments, messages,
                   nextBooking, nextMessage, reviews, nextReview, users, inflight>>
    /\ response' =
         IF ~AllowAny(actor)
         THEN Resp("retrieve_user", actor, 0, UserRequest(user_id), "AuthenticationError", "", {})
         ELSE IF user_id \notin users
         THEN Resp("retrieve_user", actor, 0, UserRequest(user_id), "NotFoundError", "", {})
         ELSE Resp("retrieve_user", actor, 0, UserRequest(user_id), "ok", "", {user_id})

\* POST, PUT, PATCH, DELETE on the users endpoint: ReadOnlyModelViewSet routes
\* no handler, APIView.http_method_not_allowed answers
UserViewSet_http_method_not_allowed(actor, method, user_id) ==
    /\ response = Idle
    /\ method \in UnsafeMethods
    /\ UNCHANGED <<property_price_field, properties, bookings, payments, messages,
                   nextBooking, nextMessage, reviews, nextReview, users, inflight>>
    /\ response' =
         IF ~AllowAny(actor)
         THEN Resp("write_user", actor, 0, UserRequest(user_id), "AuthenticationError", method, {})
         ELSE Resp("write_user", actor, 0, UserRequest(user_id), "MethodNotAllowed", method, {})

\* ----------------------------------------------------- property actions
\* the body of a property request; property_id is the property the route
\* addresses (ABSENT on the collection route), a pricepernight of 0 stands for
\* a body without the key
PropertyRequest(property_id, pricepernight) ==
    [property_id |-> property_id, pricepernight |-> pricepernight]

\* NestedPropertySerializer.Meta.read_only_fields = fields: nothing is written
NestedPropertySerializer_validated_data(data) ==
    [pricepernight |-> 0]

\* ModelSerializer.update: setattr for every key of validated_data
NestedPropertySerializer_update(instance, validated_data) ==
    [instance EXCEPT !.price = IF validated_data.pricepernight # 0
                               THEN validated_data.pricepernight ELSE @]

\* IsPropertyHost.has_object_permission
IsPropertyHost(actor, method, obj) ==
    method \in SAFE_METHODS \/ obj.host = actor

\* PropertyViewSet.get_permissions + get_object for a detail route
PropertyViewSet_get_object(actor, action, pid) ==
    IF action \in {"update", "partial_update", "destroy"} /\ ~IsAuthenticated(actor)
    THEN "AuthenticationError"
    ELSE IF pid \notin DOMAIN properties THEN "NotFoundError"
    ELSE IF action \in {"update", "partial_update", "destroy"}
            /\ ~IsPropertyHost(actor, Method(action), properties[pid])
    THEN "PermissionError"
    ELSE "ok"

\* the identifier a newly created property gets
NewPropertyId == "p3"

\* POST /properties/ : perform_create saves host=request.user; a row without
\* its price (NOT NULL) is refused by the database
PropertyViewSet_create(actor, data) ==
    LET validated_data == NestedPropertySerializer_validated_data(data)
        instance == [host |-> actor, price |-> validated_data.pricepernight]
    IN
    /\ response = Idle
    /\ UNCHANGED <<property_price_field, bookings, payments, messages,
                   nextBooking, nextMessage, reviews, nextReview, users, inflight>>
    /\ IF ~IsAuthenticated(actor)
       THEN /\ response' = Resp("create_property", actor, 0, PropertyRequest(ABSENT, 0),
                                 "AuthenticationError", "", {})
            /\ UNCHANGED properties
       ELSE IF ~NestedPropertySerializer_fields_ok
       THEN /\ response' = Resp("create_property", actor, 0, data, "ServerError",
                                 "ImproperlyConfigured", {})
            /\ UNCHANGED properties
       ELSE IF instance.price = 0
       THEN /\ response' = Resp("create_property", actor, 0, data, "ServerError",
                                 "IntegrityError", {})
            /\ UNCHANGED properties
       ELSE /\ properties' = properties @@ (NewPropertyId :> instance)
            /\ response' = Resp("create_property", actor, 0, data, "created", "", {})

\* PUT / PATCH /properties/{id}/
PropertyViewSet_update(actor, pid, data, partial) ==
    LET action == IF partial THEN "partial_update" ELSE "update"
        op == IF partial THEN "partial_update_property" ELSE "update_property"
        access == PropertyViewSet_get_object(actor, action, pid)
    IN
    /\ response = Idle
    /\ UNCHANGED <<property_price_field, bookings, payments, messages,
                   nextBooking, nextMessage, reviews, nextReview, users, inflight>>
    /\ IF access # "ok"
       THEN /\ response' = Resp(op, actor, 0, PropertyRequest(pid, 0), access, "", {})
            /\ UNCHANGED properties
       ELSE IF ~NestedPropertySerializer_fields_ok
       THEN /\ response' = Resp(op, actor, 0, data, "ServerError",
                                 "ImproperlyConfigured", {})
            /\ UNCHANGED properties
       ELSE /\ properties' =
                 [properties EXCEPT ![pid] =
                    NestedPropertySerializer_update(
                        @, NestedPropertySerializer_validated_data(data))]
            /\ response' = Resp(op, actor, 0, data, "ok", "", {})

\* DELETE /properties/{id}/ : bookings (with their payments) and reviews of
\* the property cascade
PropertyViewSet_destroy(actor, pid) ==
    LET access == PropertyViewSet_get_object(actor, "destroy", pid)
        kept == {id \in DOMAIN bookings : bookings[id].property # pid}
    IN
    /\ response = Idle
    /\ UNCHANGED <<property_price_field, messages, nextBooking, nextMessage, nextReview, users, inflight>>
    /\ IF access # "ok"
       THEN /\ response' = Resp("destroy_property", actor, 0, PropertyRequest(pid, 0),
                                 access, "", {})
            /\ UNCHANGED <<properties, bookings, payments, reviews>>
       ELSE /\ properties' = [q \in DOMAIN properties \ {pid} |-> properties[q]]
            /\ bookings' = [i \in kept |-> bookings[i]]
            /\ payments' = {p \in payments : p.booking \in kept}
            /\ reviews' = {r \in reviews : r.property # pid}
            /\ response' = Resp("destroy_property", actor, 0, PropertyRequest(pid, 0),
                                 "no_content", "", {})

\* GET /properties/{id}/ and GET /properties/ (AllowAny)
PropertyViewSet_retrieve(actor, pid) ==
    LET access == PropertyViewSet_get_object(actor, "retrieve", pid) IN
    /\ response = Idle
    /\ UNCHANGED <<property_price_field, properties, bookings, payments, messages,
                   nextBooking, nextMessage, reviews, nextReview, users, inflight>>
    /\ response' =
         IF access # "ok"
         THEN Resp("retrieve_property", actor, 0, PropertyRequest(pid, 0), access, "", {})
         ELSE IF ~NestedPropertySerializer_fields_ok
         THEN Resp("retrieve_property", actor, 0, PropertyRequest(pid, 0),
                   "ServerError", "ImproperlyConfigured", {})
         ELSE Resp("retrieve_property", actor, 0, PropertyRequest(pid, 0), "ok", "", {pid})

PropertyViewSet_list(actor) ==
    /\ response = Idle
    /\ UNCHANGED <<property_price_field, properties, bookings, payments, messages,
                   nextBooking, nextMessage, reviews, nextReview, users, inflight>>
    /\ response' =
         IF DOMAIN properties # {} /\ ~NestedPropertySerializer_fields_ok
         THEN Resp("list_properties", actor, 0, PropertyRequest(ABSENT, 0),
                   "ServerError", "ImproperlyConfigured", {})
         ELSE Resp("list_properties", actor, 0, PropertyRequest(ABSENT, 0), "ok", "",
                   DOMAIN properties)

\* ------------------------------------------------------- review actions
\* text is a sequence of characters; str.strip() drops the blanks at both ends
RECURSIVE lstrip(_)
lstrip(text) ==
    IF text # <<>> /\ Head(text) = " " THEN lstrip(Tail(text)) ELSE text

RECURSIVE rstrip(_)
rstrip(text) ==
    IF text # <<>> /\ text[Len(text)] = " "
    THEN rstrip(SubSeq(text, 1, Len(text) - 1)) ELSE text

strip(text) == rstrip(lstrip(text))

\* the body of a review request: `given` holds the keys the body carries
ReviewFields == {"property_id", "user_id", "rating", "comment"}
ReviewRequest(given, property_id, user_id, rating, comment) ==
    [given |-> given, property_id |-> property_id, user_id |-> user_id,
     rating |-> rating, comment |-> comment]
NoReviewRequest == ReviewRequest({}, ABSENT, ABSENT, 0, <<>>)

\* ReviewSerializer.validate_rating (and the validators of Review.rating)
ReviewSerializer_validate_rating(value) == 1 <= value /\ value <= 5

\* (variant) comment field that accepts blank text
ReviewSerializer_comment_valid_allow_blank(value) == TRUE

\* the serializer field of Review.comment (TextField, blank not allowed):
\* text that is empty once trimmed is refused
ReviewSerializer_comment_valid(value) == strip(value) # <<>>

\* ReviewSerializer field validation
ReviewSerializer_is_valid(data, partial) ==
    /\ partial \/ ReviewFields \subseteq data.given
    /\ "property_id" \in data.given => data.property_id \in DOMAIN properties
    /\ "user_id" \in data.given => data.user_id \in users
    /\ "rating" \in data.given => ReviewSerializer_validate_rating(data.rating)
    /\ "comment" \in data.given => ReviewSerializer_comment_valid(data.comment)

\* validated_data: the comment is stored trimmed
ReviewSerializer_validated_data(data) ==
    [data EXCEPT !.comment = strip(@)]

\* (variant) create that stores whatever it is given: the key fields have a
\* source and the table has no unique_together
ReviewSerializer_create_unguarded(validated_data) ==
    [outcome |-> "created", detail |-> ""]

\* ModelSerializer.create on a Review: property_id and user_id (declared
\* without source) reach the model as instances in the key columns and the
\* insert fails; without them the row would lack its property
ReviewSerializer_create(validated_data) ==
    IF "property_id" \in validated_data.given \/ "user_id" \in validated_data.given
    THEN [outcome |-> "ServerError", detail |-> "django ValidationError"]
    ELSE [outcome |-> "ServerError", detail |-> "IntegrityError"]

\* ModelSerializer.update on a Review
ReviewSerializer_update(instance, validated_data) ==
    IF "property_id" \in validated_data.given \/ "user_id" \in validated_data.given
    THEN [outcome |-> "ServerError", detail |-> "django ValidationError",
          instance |-> instance]
    ELSE [outcome |-> "ok", detail |-> "",
          instance |->
            [instance EXCEPT
               !.rating = IF "rating" \in validated_data.given
                          THEN validated_data.rating ELSE @,
               !.comment = IF "comment" \in validated_data.given
                           THEN validated_data.comment ELSE @]]

\* rendering a review renders its nested PropertySerializer, whose Meta.fields
\* names pricepernight
ReviewSerializer_data_ok == PropertyHasAttr("pricepernight")

ReviewOf(id) == CHOOSE r \in reviews : r.id = id

\* IsReviewOwner.has_object_permission
IsReviewOwner(actor, method, obj) ==
    method \in SAFE_METHODS \/ obj.user = actor

\* ReviewViewSet.get_permissions + get_object for update and destroy
ReviewViewSet_get_object(actor, action, id) ==
    IF ~IsAuthenticated(actor) THEN "AuthenticationError"
    ELSE IF \A r \in reviews : r.id # id THEN "NotFoundError"
    ELSE IF ~IsReviewOwner(actor, Method(action), ReviewOf(id))
    THEN "PermissionError"
    ELSE "ok"

\* POST /reviews/ : perform_create saves user=request.user
ReviewViewSet_create(actor, data) ==
    /\ response = Idle
    /\ UNCHANGED <<property_price_field, properties, bookings, payments, messages,
                   nextBooking, nextMessage, reviews, nextReview, users, inflight>>
    /\ response' =
         IF ~IsAuthenticated(actor)
         THEN Resp("create_review", actor, 0, NoReviewRequest,
                   "AuthenticationError", "", {})
         ELSE IF ~ReviewSerializer_is_valid(data, FALSE)
         THEN Resp("create_review", actor, 0, data, "ValidationError", "invalid", {})
         ELSE LET r == ReviewSerializer_create(ReviewSerializer_validated_data(data))
              IN  Resp("create_review", actor, 0, data, r.outcome, r.detail, {})

\* PUT / PATCH /reviews/{id}/
ReviewViewSet_update(actor, id, data, partial) ==
    LET action == IF partial THEN "partial_update" ELSE "update"
        op == IF partial THEN "partial_update_review" ELSE "update_review"
        access == ReviewViewSet_get_object(actor, action, id)
    IN
    /\ response = Idle
    /\ UNCHANGED <<property_price_field, properties, bookings, payments, messages,
                   nextBooking, nextMessage, nextReview, users, inflight>>
    /\ IF access # "ok"
       THEN /\ response' = Resp(op, actor, id, NoReviewRequest, access, "", {})
            /\ UNCHANGED reviews
       ELSE IF ~ReviewSerializer_is_valid(data, partial)
       THEN /\ response' = Resp(op, actor, id, data, "ValidationError", "invalid", {})
            /\ UNCHANGED reviews
       ELSE LET r == ReviewSerializer_update(ReviewOf(id),
                                             ReviewSerializer_validated_data(data))
            IN  IF r.outcome # "ok"
                THEN /\ response' = Resp(op, actor, id, data, r.outcome, r.detail, {})
                     /\ UNCHANGED reviews
                ELSE /\ reviews' = (reviews \ {ReviewOf(id)}) \cup {r.instance}
                     /\ response' =
                          IF ReviewSerializer_data_ok
                          THEN Resp(op, actor, id, data, "ok", "", {})
                          ELSE Resp(op, actor, id, data, "ServerError",
                                    "ImproperlyConfigured", {})

\* DELETE /reviews/{id}/
ReviewViewSet_destroy(actor, id) ==
    LET access == ReviewViewSet_get_object(actor, "destroy", id) IN
    /\ response = Idle
    /\ UNCHANGED <<property_price_field, properties, bookings, payments, messages,
                   nextBooking, nextMessage, nextReview, users, inflight>>
    /\ IF access # "ok"
       THEN /\ response' = Resp("destroy_review", actor, id, NoReviewRequest,
                                 access, "", {})
            /\ UNCHANGED reviews
       ELSE /\ reviews' = reviews \ {ReviewOf(id)}
            /\ response' = Resp("destroy_review", actor, id, NoReviewRequest,
                                 "no_content", "", {})

\* ------------------------------------------------------ message actions
\* the body of a message request: `given` holds the keys the body carries
MessageFields == {"sender_id", "receiver_id", "message_body"}
MessageRequest(given, sender_id, receiver_id, message_body) ==
    [given |-> given, sender_id |-> sender_id, receiver_id |-> receiver_id,
     message_body |-> message_body]
NoMessageRequest == MessageRequest({}, ABSENT, ABSENT, <<>>)

\* MessageSerializer field validation, with validate_message_body
MessageSerializer_is_valid(data, partial) ==
    /\ partial \/ MessageFields \subseteq data.given
    /\ "sender_id" \in data.given => data.sender_id \in users
    /\ "receiver_id" \in data.given => data.receiver_id \in users
    /\ "message_body" \in data.given => strip(data.message_body) # <<>>

\* ModelSerializer.update on a Message: sender_id (declared without source)
\* is written as a User instance into the key column and the save fails
MessageSerializer_update(instance, validated_data) ==
    IF "sender_id" \in validated_data.given
    THEN [outcome |-> "ServerError", detail |-> "django ValidationError",
          instance |-> instance]
    ELSE [outcome |-> "ok", detail |-> "",
          instance |->
            [instance EXCEPT
               !.message_body = IF "message_body" \in validated_data.given
                                THEN strip(validated_data.message_body) ELSE @]]

MessageOf(id) == CHOOSE m \in messages : m.id = id

\* (variant) object permission that lets the recipient write too
IsMessageSender_or_recipient(actor, method, obj) ==
    method \in SAFE_METHODS \/ obj.sender = actor \/ obj.recipient = actor

\* IsMessageSender.has_object_permission
IsMessageSender(actor, method, obj) ==
    method \in SAFE_METHODS \/ obj.sender = actor

\* MessageViewSet.get_permissions + get_object for update and destroy
MessageViewSet_get_object(actor, action, id) ==
    IF ~IsAuthenticated(actor) THEN "AuthenticationError"
    ELSE IF \A m \in MessageViewSet_get_queryset(actor) : m.id # id
    THEN "NotFoundError"
    ELSE IF ~IsMessageSender(actor, Method(action), MessageOf(id))
    THEN "PermissionError"
    ELSE "ok"

\* POST /messages/ : perform_create saves sender=request.user; receiver_id is
\* no field of the model, so Message.objects.create raises TypeError
MessageViewSet_create(actor, data) ==
    /\ response = Idle
    /\ UNCHANGED <<property_price_field, properties, bookings, payments, messages,
                   nextBooking, nextMessage, reviews, nextReview, users, inflight>>
    /\ response' =
         IF ~IsAuthenticated(actor)
         THEN Resp("create_message", actor, 0, NoMessageRequest,
                   "AuthenticationError", "", {})
         ELSE IF ~MessageSerializer_fields_ok
         THEN Resp("create_message", actor, 0, data, "ServerError",
                   "ImproperlyConfigured", {})
         ELSE IF ~MessageSerializer_is_valid(data, FALSE)
         THEN Resp("create_message", actor, 0, data, "ValidationError", "invalid", {})
         ELSE Resp("create_message", actor, 0, data, "ServerError", "TypeError", {})

\* PUT / PATCH /messages/{id}/
MessageViewSet_update(actor, id, data, partial) ==
    LET action == IF partial THEN "partial_update" ELSE "update"
        op == IF partial THEN "partial_update_message" ELSE "update_message"
        access == MessageViewSet_get_object(actor, action, id)
    IN
    /\ response = Idle
    /\ UNCHANGED <<property_price_field, properties, bookings, payments,
                   nextBooking, nextMessage, reviews, nextReview, users, inflight>>
    /\ IF access # "ok"
       THEN /\ response' = Resp(op, actor, id, NoMessageRequest, access, "", {})
            /\ UNCHANGED messages
       ELSE IF ~MessageSerializer_fields_ok
       THEN /\ response' = Resp(op, actor, id, data, "ServerError",
                                 "ImproperlyConfigured", {})
            /\ UNCHANGED messages
       ELSE IF ~MessageSerializer_is_valid(data, partial)
       THEN /\ response' = Resp(op, actor, id, data, "ValidationError", "invalid", {})
            /\ UNCHANGED messages
       ELSE LET r == MessageSerializer_update(MessageOf(id), data) IN
            IF r.outcome # "ok"
            THEN /\ response' = Resp(op, actor, id, data, r.outcome, r.detail, {})
                 /\ UNCHANGED messages
            ELSE /\ messages' = (messages \ {MessageOf(id)}) \cup {r.instance}
                 /\ response' = Resp(op, actor, id, data, "ok", "", {})

\* DELETE /messages/{id}/
MessageViewSet_destroy(actor, id) ==
    LET access == MessageViewSet_get_object(actor, "destroy", id) IN
    /\ response = Idle
    /\ UNCHANGED <<property_price_field, properties, bookings, payments,
                   nextBooking, nextMessage, reviews, nextReview, users, inflight>>
    /\ IF access # "ok"
       THEN /\ response' = Resp("destroy_message", actor, id, NoMessageRequest,
                                 access, "", {})
            /\ UNCHANGED messages
       ELSE /\ messages' = messages \ {MessageOf(id)}
            /\ response' = Resp("destroy_message", actor, id, NoMessageRequest,
                                 "no_content", "", {})

\* ------------------------------------------------------------- seeding
\* -------------------------------------------------- concurrent creation
\* two creation requests handled by two workers: CreateModelMixin.create runs
\* get_serializer and is_valid, which read the tables, and then
\* perform_create, which writes; the steps of the two requests interleave
Slots == {"r1", "r2"}

\* a request in a worker: where it stands, what it asks, the requests that
\* were between is_valid and perform_create when it arrived, and its answer
Request(pc, op, actor, req, during, outcome, detail) ==
    [pc |-> pc, op |-> op, actor |-> actor, req |-> req, during |-> during,
     outcome |-> outcome, detail |-> detail]
NoRequest == Request("idle", "none", ANON, EmptyPayload, {}, "none", "")

\* the requests that have passed is_valid and not yet written
Validated == {t \in Slots : inflight[t].pc = "perform_create"}

\* POST /bookings/ up to serializer.is_valid(raise_exception=True)
BookingViewSet_create_is_valid(slot, actor, data) ==
    /\ inflight[slot].pc = "idle"
    /\ inflight' = [inflight EXCEPT ![slot] =
         IF ~IsAuthenticated(actor)
         THEN Request("done", "create", actor, EmptyPayload, Validated,
                      "AuthenticationError", "")
         ELSE IF ~BookingSerializer_is_valid(data, FALSE)
         THEN Request("done", "create", actor, data, Validated,
                      "ValidationError", "invalid")
         ELSE Request("perform_create", "create", actor, data, Validated, "none", "")]
    /\ UNCHANGED <<property_price_field, properties, bookings, payments, messages,
                   nextBooking, nextMessage, reviews, nextReview, users, response>>

\* POST /bookings/ from BookingViewSet.perform_create on: serializer.save
\* (user=request.user) runs BookingSerializer.create, the response renders
\* serializer.data
BookingViewSet_create_perform_create(slot) ==
    LET q == inflight[slot]
        validated_data ==
            [BookingSerializer_validated_data(q.req) EXCEPT !.user = q.actor]
        r == BookingSerializer_create(validated_data)
    IN
    /\ q.pc = "perform_create"
    /\ q.op = "create"
    /\ IF r.outcome # "created"
       THEN /\ inflight' = [inflight EXCEPT ![slot] =
                 [q EXCEPT !.pc = "done", !.outcome = r.outcome, !.detail = r.detail]]
            /\ UNCHANGED <<bookings, nextBooking>>
       ELSE /\ bookings' = bookings @@ (nextBooking :> r.instance)
            /\ nextBooking' = nextBooking + 1
            /\ inflight' = [inflight EXCEPT ![slot] =
                 IF BookingSerializer_data_ok
                 THEN [q EXCEPT !.pc = "done", !.outcome = "created"]
                 ELSE [q EXCEPT !.pc = "done", !.outcome = "ServerError",
                                !.detail = "ImproperlyConfigured"]]
    /\ UNCHANGED <<property_price_field, properties, payments, messages,
                   nextMessage, reviews, nextReview, users, response>>

\* POST /reviews/ up to serializer.is_valid(raise_exception=True)
ReviewViewSet_create_is_valid(slot, actor, data) ==
    /\ inflight[slot].pc = "idle"
    /\ inflight' = [inflight EXCEPT ![slot] =
         IF ~IsAuthenticated(actor)
         THEN Request("done", "create_review", actor, NoReviewRequest, Validated,
                      "AuthenticationError", "")
         ELSE IF ~ReviewSerializer_is_valid(data, FALSE)
         THEN Request("done", "create_review", actor, data, Validated,
                      "ValidationError", "invalid")
         ELSE Request("perform_create", "create_review", actor, data, Validated,
                      "none", "")]
    /\ UNCHANGED <<property_price_field, properties, bookings, payments, messages,
                   nextBooking, nextMessage, reviews, nextReview, users, response>>

\* POST /reviews/ from ReviewViewSet.perform_create on: serializer.save
\* (user=request.user) runs ModelSerializer.create
ReviewViewSet_create_perform_create(slot) ==
    LET q == inflight[slot]
        validated_data == ReviewSerializer_validated_data(q.req)
        r == ReviewSerializer_create(validated_data)
    IN
    /\ q.pc = "perform_create"
    /\ q.op = "create_review"
    /\ IF r.outcome # "created"
       THEN /\ inflight' = [inflight EXCEPT ![slot] =
                 [q EXCEPT !.pc = "done", !.outcome = r.outcome, !.detail = r.detail]]
            /\ UNCHANGED <<reviews, nextReview>>
       ELSE /\ reviews' = reviews \cup
                 {[id |-> nextReview, property |-> validated_data.property_id,
                   user |-> q.actor, rating |-> validated_data.rating,
                   comment |-> validated_data.comment]}
            /\ nextReview' = nextReview + 1
            /\ inflight' = [inflight EXCEPT ![slot] =
                 IF ReviewSerializer_data_ok
                 THEN [q EXCEPT !.pc = "done", !.outcome = "created"]
                 ELSE [q EXCEPT !.pc = "done", !.outcome = "ServerError",
                                !.detail = "ImproperlyConfigured"]]
    /\ UNCHANGED <<property_price_field, properties, bookings, payments, messages,
                   nextBooking, nextMessage, users, response>>

\* seed.py Command.handle: one booking (with its payment when the status is
\* confirmed or canceled, and with its guest's review when it is confirmed,
\* over, drawn for a review and the pair has none yet) and one message,
\* written through the ORM
SeedMinNights == 2
SeedMaxNights == 14
SeedMinRating == 1
SeedMaxRating == 5

Seed(guest, property_obj, start_date, nights, status, review, rating, sender, recipient) ==
    /\ response = Idle
    /\ PropertyHasAttr("pricepernight")
    /\ property_obj \in DOMAIN properties
    /\ {guest, sender, recipient} \subseteq users
    /\ role[guest] \in {"guest", "admin"}
    /\ nights \in SeedMinNights..SeedMaxNights
    /\ start_date + nights \in Dates
    /\ rating \in SeedMinRating..SeedMaxRating
    /\ sender # recipient
    /\ nextBooking <= MaxBookings
    /\ nextMessage <= MaxMessages
    /\ LET total_price == properties[property_obj].price * nights IN
       /\ bookings' = bookings @@ (nextBooking :>
              [property    |-> property_obj,
               user        |-> guest,
               start_date  |-> start_date,
               end_date    |-> start_date + nights,
               total_price |-> total_price,
               status      |-> status])
       /\ payments' =
            IF status \in {"confirmed", "canceled"}
            THEN payments \cup
                 {[booking |-> nextBooking,
                   amount |-> IF status = "confirmed" THEN total_price ELSE 0]}
            ELSE payments
    /\ IF /\ review
          /\ status = "confirmed"
          /\ \A r \in reviews : r.property # property_obj \/ r.user # guest
       THEN /\ reviews' = reviews \cup
                 {[id |-> nextReview, property |-> property_obj, user |-> guest,
                   rating |-> rating, comment |-> <<"a">>]}
            /\ nextReview' = nextReview + 1
       ELSE UNCHANGED <<reviews, nextReview>>
    /\ messages' = messages \cup
         {[id |-> nextMessage, sender |-> sender, recipient |-> recipient,
           message_body |-> <<"a">>]}
    /\ nextBooking' = nextBooking + 1
    /\ nextMessage' = nextMessage + 1
    /\ UNCHANGED <<property_price_field, properties, users, inflight, response>>

\* models.py on_delete=models.CASCADE: deleting the row of a user through the
\* ORM (seed.py --clear, the admin site) deletes the properties the user
\* hosts, the bookings of the user and of those properties, the payments of
\* those bookings, the reviews of the user and of those properties, and the
\* messages the user sent or received
CustomUser_delete(user) ==
    /\ response = Idle
    /\ user \in users
    /\ LET hosted == {p \in DOMAIN properties : properties[p].host = user}
           gone   == {b \in DOMAIN bookings :
                        bookings[b].user = user \/ bookings[b].property \in hosted}
       IN /\ users' = users \ {user}
          /\ properties' = [p \in DOMAIN properties \ hosted |-> properties[p]]
          /\ bookings' = [b \in DOMAIN bookings \ gone |-> bookings[b]]
          /\ payments' = {p \in payments : p.booking \notin gone}
          /\ reviews' = {r \in reviews : r.user # user /\ r.property \notin hosted}
          /\ messages' = {m \in messages : m.sender # user /\ m.recipient # user}
    /\ UNCHANGED <<property_price_field, nextBooking, nextMessage, nextReview, inflight, response>>

\* the client receives the response
Deliver ==
    /\ response # Idle
    /\ response' = Idle
    /\ UNCHANGED <<property_price_field, properties, bookings, payments, messages,
                   nextBooking, nextMessage, reviews, nextReview, users, inflight>>

\* review bodies: every field, with a rating at and beyond each limit and a
\* comment that is text, empty, blank or padded
ReviewCreatePayloads ==
    {ReviewRequest(ReviewFields, "p1", "u3", r, <<"a">>) : r \in {0, 1, 5, 6}}
    \cup {ReviewRequest(ReviewFields, "p1", "u3", 5, c) :
            c \in {<<>>, <<" ">>, <<" ", "a", " ">>}}

\* PATCH bodies of a review: one field each
ReviewPatchPayloads ==
    {ReviewRequest({"rating"}, ABSENT, ABSENT, r, <<>>) : r \in {0, 1, 5, 6}}
    \cup {ReviewRequest({"comment"}, ABSENT, ABSENT, 0, c) :
            c \in {<<>>, <<" ">>, <<" ", "a", " ">>}}
    \cup {ReviewRequest({"property_id"}, "p2", ABSENT, 0, <<>>)}

MessagePayloads ==
    {MessageRequest(MessageFields, "u3", b, <<"a">>) : b \in Users}

\* seeded bookings: a confirmed and reviewed stay of the guest u2, a canceled
\* stay of the administrator u3
SeedInputs ==
    {[guest |-> "u2", status |-> "confirmed", review |-> TRUE],
     [guest |-> "u3", status |-> "canceled", review |-> FALSE]}

\* the identifiers a request may address
ReviewIds == 1..MaxBookings
MessageIds == 1..MaxMessages

\* ---------------------------------------------------------------- spec
Init ==
    /\ property_price_field \in PropertyPriceFieldNames
    /\ properties = [p \in PropertyIds |->
                        IF p = "p1" THEN [host |-> "u1", price |-> 15000]
                                    ELSE [host |-> "u2", price |-> 10000]]
    /\ bookings = <<>>
    /\ payments = {}
    /\ messages = {}
    /\ nextBooking = 1
    /\ nextMessage = 1
    /\ reviews = {}
    /\ nextReview = 1
    /\ users = Users
    /\ inflight = [slot \in Slots |-> NoRequest]
    /\ response = Idle

\* the callers of a request: the users that can authenticate, and the
\* anonymous caller
Callers == users \cup {ANON}

\* one request is handled at a time: the next one starts when the response
\* of the previous one has been delivered
Next ==
    \/ response = Idle /\ \E actor \in Callers, data \in CreatePayloads :
          BookingViewSet_create(actor, data)
    \/ response = Idle /\ \E actor \in Callers, id \in BookingIds, data \in PatchPayloads :
          BookingViewSet_update(actor, id, data, TRUE)
    \/ response = Idle /\ \E actor \in Callers, id \in BookingIds, data \in PutPayloads :
          BookingViewSet_update(actor, id, data, FALSE)
    \/ response = Idle /\ \E actor \in Callers, id \in BookingIds :
          BookingViewSet_destroy(actor, id)
    \/ response = Idle /\ \E actor \in Callers, id \in BookingIds :
          BookingViewSet_retrieve(actor, id)
    \/ response = Idle /\ \E actor \in Callers : BookingViewSet_list(actor)
    \/ response = Idle /\ \E actor \in Callers : PaymentViewSet_list(actor)
    \/ response = Idle /\ \E actor \in Callers : MessageViewSet_list(actor)
    \/ response = Idle /\ \E actor \in Callers, id \in BookingIds :
          PaymentViewSet_update(actor, id, PaymentRequest(0, 1), TRUE)
    \/ response = Idle /\ \E actor \in Callers, id \in BookingIds :
          PaymentViewSet_update(actor, id, PaymentRequest(id, 1), FALSE)
    \/ response = Idle /\ \E actor \in Callers, id \in BookingIds :
          PaymentViewSet_destroy(actor, id)
    \/ response = Idle /\ \E actor \in Callers, id \in BookingIds :
          PaymentViewSet_create(actor, PaymentRequest(id, 1))
    \/ response = Idle /\ \E actor \in Callers, id \in BookingIds :
          PaymentViewSet_retrieve(actor, id)
    \/ response = Idle /\ \E actor \in Callers : UserViewSet_list(actor)
    \/ response = Idle /\ \E actor \in Callers, user_id \in Users :
          UserViewSet_retrieve(actor, user_id)
    \/ response = Idle /\ \E actor \in Callers, user_id \in Users :
          UserViewSet_http_method_not_allowed(actor, "DELETE", user_id)
    \/ response = Idle /\ \E actor \in Callers, method \in UnsafeMethods :
          UserViewSet_http_method_not_allowed(actor, method, ABSENT)
    \/ response = Idle /\ \E actor \in Callers : PropertyViewSet_create(actor, PropertyRequest(ABSENT, 20000))
    \/ response = Idle /\ \E actor \in Callers, pid \in PropertyIds, partial \in BOOLEAN :
          PropertyViewSet_update(actor, pid, PropertyRequest(pid, 20000), partial)
    \/ response = Idle /\ \E actor \in Callers, pid \in PropertyIds :
          PropertyViewSet_destroy(actor, pid)
    \/ response = Idle /\ \E actor \in Callers, pid \in PropertyIds :
          PropertyViewSet_retrieve(actor, pid)
    \/ response = Idle /\ \E actor \in Callers : PropertyViewSet_list(actor)
    \/ response = Idle /\ \E actor \in Callers, data \in ReviewCreatePayloads :
          ReviewViewSet_create(actor, data)
    \/ response = Idle /\ \E actor \in Callers, id \in ReviewIds, data \in ReviewPatchPayloads :
          ReviewViewSet_update(actor, id, data, TRUE)
    \/ response = Idle /\ \E actor \in Callers, id \in ReviewIds, data \in ReviewCreatePayloads :
          ReviewViewSet_update(actor, id, data, FALSE)
    \/ response = Idle /\ \E actor \in Callers, id \in ReviewIds :
          ReviewViewSet_destroy(actor, id)
    \/ response = Idle /\ \E actor \in Callers, data \in MessagePayloads :
          MessageViewSet_create(actor, data)
    \/ response = Idle /\ \E actor \in Callers, id \in MessageIds, partial \in BOOLEAN :
          MessageViewSet_update(actor, id,
              MessageRequest({"message_body"}, ABSENT, ABSENT, <<"b">>), partial)
    \/ response = Idle /\ \E actor \in Callers, id \in MessageIds :
          MessageViewSet_destroy(actor, id)
    \/ response = Idle /\ \E in \in SeedInputs :
          Seed(in.guest, "p1", 1, SeedMinNights, in.status, in.review,
               SeedMaxRating, "u1", "u2")
    \/ \E user \in Users : CustomUser_delete(user)
    \/ Deliver

Spec == Init /\ [][Next]_vars

\* the bodies and callers of the concurrent creations: stays on p1 from day 1
\* (the order of the dates right or wrong), one review of p1
ConcurrentBookingPayloads ==
    {data \in CreatePayloads : data.user_id = "u3" /\ data.status = ABSENT}
ConcurrentReviewPayloads == {ReviewRequest(ReviewFields, "p1", "u3", 5, <<"a">>)}
ConcurrentCallers == {ANON, "u2", "u3"}

\* the two workers take creation requests and run their steps in any order;
\* the seed script may have filled the tables
NextConcurrent ==
    \/ \E slot \in Slots, actor \in ConcurrentCallers, data \in ConcurrentBookingPayloads :
          BookingViewSet_create_is_valid(slot, actor, data)
    \/ \E slot \in Slots : BookingViewSet_create_perform_create(slot)
    \/ \E slot \in Slots, actor \in ConcurrentCallers, data \in ConcurrentReviewPayloads :
          ReviewViewSet_create_is_valid(slot, actor, data)
    \/ \E slot \in Slots : ReviewViewSet_create_perform_create(slot)
    \/ \E in \in SeedInputs :
          Seed(in.guest, "p1", 1, SeedMinNights, in.status, in.review,
               SeedMaxRating, "u1", "u2")

SpecConcurrent == Init /\ [][NextConcurrent]_vars


\* ================================================================ claims
UpdateOps == {"update", "partial_update"}
WriteOps == {"update", "partial_update", "destroy"}
DetailOps == {"retrieve", "update", "partial_update", "destroy"}

\* the booking exists and the actor is its guest / the host of its property
IsGuestOf(actor, id) == id \in DOMAIN bookings /\ bookings[id].user = actor
IsHostOf(actor, id) ==
    id \in DOMAIN bookings /\ properties[bookings[id].property].host = actor

\* C1: a booking creation that succeeds stores total_price = the nightly price
\* of the requested property times the number of days end_date - start_date,
\* exactly, and only for end_date > start_date
C1_TotalPriceAtCreation ==
    (response.op = "create" /\ response.outcome = "created") =>
        /\ response.target \in DOMAIN bookings
        /\ response.req.end_date > response.req.start_date
        /\ bookings[response.target].total_price =
             properties[response.req.property_id].price
               * (response.req.end_date - response.req.start_date)

\* C1 witness: a two-night booking of the property priced 150.00 was created
\* and stores 300.00
C1_Witness ==
    /\ response.op = "create"
    /\ response.outcome = "created"
    /\ response.req.property_id = "p1"
    /\ response.req.end_date - response.req.start_date = 2
    /\ bookings[response.target].total_price = 30000

\* C2: a creation request of an authenticated user with end_date <= start_date
\* fails with a ValidationError and leaves the stored bookings as they were
C2_BadDatesRejected ==
    [][ ( /\ response'.op = "create"
          /\ response'.actor \in Users
          /\ response'.req.end_date <= response'.req.start_date )
        => ( /\ response'.outcome = "ValidationError"
             /\ bookings' = bookings ) ]_vars

\* C2 witness: a creation with equal dates was answered with the date-order
\* ValidationError
C2_Witness ==
    /\ response.op = "create"
    /\ response.req.end_date = response.req.start_date
    /\ response.req.user_id # ABSENT
    /\ response.outcome = "ValidationError"
    /\ response.detail = "End date must be after start date."

\* C3 (as claimed): every created booking has the actor as its guest, and a
\* creation request need not carry a guest identifier: a request of an
\* authenticated user without user_id, otherwise well-formed, is not rejected
\* by field validation
C3_GuestIdNotRequired ==
    /\ (response.op = "create" /\ response.outcome = "created")
          => bookings[response.target].user = response.actor
    /\ ( /\ response.op = "create"
         /\ response.actor \in Users
         /\ response.req.user_id = ABSENT
         /\ response.req.property_id \in DOMAIN properties
         /\ response.req.end_date > response.req.start_date )
          => ~(response.outcome = "ValidationError" /\ response.detail = "invalid")

\* C4: a booking created through the endpoint has status pending right after
\* creation, whatever status the request carried
C4_CreatedPending ==
    (response.op = "create" /\ response.outcome = "created") =>
        bookings[response.target].status = PENDING

\* C4 witness: a request carrying status confirmed created a booking
C4_Witness ==
    /\ response.op = "create"
    /\ response.outcome = "created"
    /\ response.req.status = "confirmed"

\* C5: an update whose payload carries the property or the guest reference
\* leaves every booking unchanged, and fails with a ValidationError when the
\* booking's guest sends it; no step changes the property or the user of a
\* stored booking
C5_PropertyAndUserImmutable ==
    [][ /\ ( /\ response'.op \in UpdateOps
             /\ \/ response'.req.property_id # ABSENT
                \/ response'.req.user_id # ABSENT )
           => /\ bookings' = bookings
              /\ IsGuestOf(response'.actor, response'.target)
                    => response'.outcome = "ValidationError"
        /\ \A id \in DOMAIN bookings \cap DOMAIN bookings' :
              /\ bookings'[id].property = bookings[id].property
              /\ bookings'[id].user = bookings[id].user ]_vars

\* C5 witness: the guest's patch naming another property was rejected
C5_Witness ==
    /\ response.op = "partial_update"
    /\ IsGuestOf(response.actor, response.target)
    /\ response.req.property_id \in DOMAIN properties
    /\ response.req.property_id # bookings[response.target].property
    /\ response.outcome = "ValidationError"
    /\ response.detail = "Property and user cannot be changed after booking creation."

\* C6 (as claimed): when the booking's guest patches only the status, the
\* request succeeds and the stored status is the requested one
C6_StatusUpdateTakesEffect ==
    ( /\ response.op = "partial_update"
      /\ IsGuestOf(response.actor, response.target)
      /\ response.req.status \in BookingStatusChoices
      /\ response.req = [EmptyPayload EXCEPT !.status = response.req.status] )
    => /\ response.outcome = "ok"
       /\ bookings[response.target].status = response.req.status

\* C7: a list of bookings, payments or messages holds only records the
\* requester takes part in: guest or host of the booking (of the payment's
\* booking), sender or recipient of the message
C7_ListsAreScoped ==
    /\ response.op = "list_bookings" =>
         \A id \in response.result :
            IsGuestOf(response.actor, id) \/ IsHostOf(response.actor, id)
    /\ response.op = "list_payments" =>
         \A id \in response.result :
            /\ \E p \in payments : p.booking = id
            /\ IsGuestOf(response.actor, id) \/ IsHostOf(response.actor, id)
    /\ response.op = "list_messages" =>
         \A id \in response.result :
            \E m \in messages :
               /\ m.id = id
               /\ m.sender = response.actor \/ m.recipient = response.actor

\* C7 witness: a user who takes no part in the stored booking lists the
\* bookings and gets none
C7_Witness ==
    /\ response.op = "list_bookings"
    /\ response.outcome = "ok"
    /\ response.actor = "u3"
    /\ \E id \in DOMAIN bookings :
          ~IsGuestOf("u3", id) /\ ~IsHostOf("u3", id)
    /\ response.result = {}

\* C8: retrieve, update or delete of a booking by an authenticated user who
\* is neither its guest nor the host of its property ends in NotFoundError,
\* as for an identifier that does not exist, and changes nothing
C8_HiddenIsNotFound ==
    [][ ( /\ response'.op \in DetailOps
          /\ response'.actor \in Users
          /\ ~IsGuestOf(response'.actor, response'.target)
          /\ ~IsHostOf(response'.actor, response'.target) )
        => ( /\ response'.outcome = "NotFoundError"
             /\ response'.detail = ""
             /\ bookings' = bookings
             /\ payments' = payments ) ]_vars

\* C8 witness: a third user's retrieve of an existing booking ended NotFoundError
C8_Witness ==
    /\ response.op = "retrieve"
    /\ response.actor \in Users
    /\ response.target \in DOMAIN bookings
    /\ ~IsGuestOf(response.actor, response.target)
    /\ ~IsHostOf(response.actor, response.target)
    /\ response.outcome = "NotFoundError"

\* C9: only the guest updates or deletes a booking: the same request by the
\* host of the property (not the guest) is refused with PermissionError and
\* changes nothing, the guest's request is not refused; a stored booking
\* changes or goes only by a write request of its guest or by the cascade of
\* the deletion of its property, of its guest or of the property's host
C9_OnlyGuestWrites ==
    [][ /\ ( /\ response'.op \in WriteOps
             /\ IsHostOf(response'.actor, response'.target)
             /\ ~IsGuestOf(response'.actor, response'.target) )
           => ( /\ response'.outcome = "PermissionError"
                /\ bookings' = bookings
                /\ payments' = payments )
        /\ ( /\ response'.op \in WriteOps
             /\ IsGuestOf(response'.actor, response'.target) )
           => response'.outcome \notin
                 {"PermissionError", "NotFoundError", "AuthenticationError"}
        /\ \A id \in DOMAIN bookings :
              (id \notin DOMAIN bookings' \/ bookings'[id] # bookings[id])
                 => \/ /\ response'.op \in WriteOps
                       /\ response'.target = id
                       /\ response'.actor = bookings[id].user
                    \/ /\ response'.op = "destroy_property"
                       /\ bookings[id].property \notin DOMAIN properties'
                    \/ /\ id \notin DOMAIN bookings'
                       /\ \/ bookings[id].user \notin users'
                          \/ properties[bookings[id].property].host \notin users' ]_vars

\* C9 witness: the host's delete of a guest's booking was refused and the
\* booking is still stored
C9_Witness ==
    /\ response.op = "destroy"
    /\ IsHostOf(response.actor, response.target)
    /\ ~IsGuestOf(response.actor, response.target)
    /\ response.outcome = "PermissionError"

\* C10 (as claimed): every stored booking has end_date after start_date
C10_EndAfterStart ==
    \A id \in DOMAIN bookings : bookings[id].end_date > bookings[id].start_date

\* C11 (as claimed): every stored booking has total_price = the nightly price
\* of its property times the number of days end_date - start_date
C11_TotalPriceInvariant ==
    \A id \in DOMAIN bookings :
        bookings[id].total_price =
            properties[bookings[id].property].price
              * (bookings[id].end_date - bookings[id].start_date)

\* C12: the total_price of a stored booking never changes: no booking update
\* (whatever the body carries: total_price, start_date, end_date), no property
\* update and no other step changes it
C12_TotalPriceImmutable ==
    [][ \A id \in DOMAIN bookings \cap DOMAIN bookings' :
           bookings'[id].total_price = bookings[id].total_price ]_vars

\* C12 witness: the guest's patch carrying a total_price was answered 200 and
\* the stored total is not the one sent
C12_Witness ==
    /\ response.op = "partial_update"
    /\ response.outcome = "ok"
    /\ response.req.total_price # 0
    /\ bookings[response.target].total_price # response.req.total_price

\* C13 (as claimed): status transitions are unrestricted: an update of the
\* booking's guest that carries a status and is answered 200 moves the booking
\* from whatever status it has to the status sent (a canceled or confirmed
\* booking back to pending too), and every stored status is one of the three
C13_StatusTransitionsUnrestricted ==
    [][ /\ ( /\ response'.op \in UpdateOps
             /\ response'.outcome = "ok"
             /\ response'.req.status \in BookingStatusChoices )
           => bookings'[response'.target].status = response'.req.status
        /\ \A id \in DOMAIN bookings' :
              bookings'[id].status \in BookingStatusChoices ]_vars

PaymentWriteOps == {"update_payment", "partial_update_payment", "destroy_payment"}

\* C14 (as claimed): a payment is updated or deleted exactly when the actor
\* has the administrator role: an update or delete of an existing payment by
\* a user of role admin is neither refused nor answered not-found, and the
\* same request by an authenticated user of another role is refused with a
\* PermissionError and leaves the payments unchanged
C14_AdminWritesPayments ==
    [][ ( /\ response'.op \in PaymentWriteOps
          /\ response'.actor \in Users
          /\ \E p \in payments : p.booking = response'.target )
        => IF role[response'.actor] = "admin"
           THEN response'.outcome \notin {"PermissionError", "NotFoundError"}
           ELSE /\ response'.outcome = "PermissionError"
                /\ payments' = payments ]_vars

PropertyWriteOps ==
    {"update_property", "partial_update_property", "destroy_property"}

\* C15 (as claimed): properties are readable by anyone, the unauthenticated
\* caller included (a list, or a retrieve of a stored property, is answered
\* 200), while an update or delete of a stored property by an authenticated
\* user other than its host is refused with a PermissionError (not the
\* AuthenticationError) and changes nothing; the properties change only by a
\* write request of the host
C15_PropertyAccess ==
    [][ /\ response'.op = "list_properties" => response'.outcome = "ok"
        /\ ( /\ response'.op = "retrieve_property"
             /\ response'.req.property_id \in DOMAIN properties )
           => response'.outcome = "ok"
        /\ ( /\ response'.op \in PropertyWriteOps
             /\ response'.actor \in Users
             /\ response'.req.property_id \in DOMAIN properties
             /\ properties[response'.req.property_id].host # response'.actor )
           => ( /\ response'.outcome = "PermissionError"
                /\ properties' = properties
                /\ bookings' = bookings )
        /\ properties' # properties
           => ( /\ response'.op \in PropertyWriteOps
                /\ properties[response'.req.property_id].host = response'.actor ) ]_vars

ReviewWriteOps == {"update_review", "partial_update_review", "destroy_review"}
ReviewUpdateOps == {"update_review", "partial_update_review"}
MessageWriteOps == {"update_message", "partial_update_message", "destroy_message"}

\* C16 (as claimed): a creation of a property, a review or a message by an
\* authenticated user with valid writable fields succeeds and records the
\* actor as host, author or sender
C16_CreatorIsOwner ==
    /\ (response.op = "create_property" /\ response.actor \in Users)
          => /\ response.outcome = "created"
             /\ \E pid \in DOMAIN properties : properties[pid].host = response.actor
    /\ ( /\ response.op = "create_review"
         /\ response.actor \in Users
         /\ ReviewSerializer_is_valid(response.req, FALSE) )
          => /\ response.outcome = "created"
             /\ \E r \in reviews : r.user = response.actor
    /\ ( /\ response.op = "create_message"
         /\ response.actor \in Users
         /\ MessageSerializer_is_valid(response.req, FALSE) )
          => /\ response.outcome = "created"
             /\ \E m \in messages : m.sender = response.actor

\* C17: a review is changed or removed only by a write request of its author
\* (or by the cascade of the deletion of its property, of its author or of
\* the property's host) and a message only by a write request of its sender
\* (or by the cascade of the deletion of its sender or recipient); the same
\* request by another authenticated user, the message's recipient included,
\* is refused and changes nothing
C17_OnlyAuthorOrSenderWrites ==
    [][ /\ \A r \in reviews : r \notin reviews'
              => \/ /\ response'.op \in ReviewWriteOps
                    /\ response'.target = r.id
                    /\ response'.actor = r.user
                 \/ /\ response'.op = "destroy_property"
                    /\ r.property \notin DOMAIN properties'
                 \/ r.user \notin users'
                 \/ properties[r.property].host \notin users'
        /\ \A m \in messages : m \notin messages'
              => \/ /\ response'.op \in MessageWriteOps
                    /\ response'.target = m.id
                    /\ response'.actor = m.sender
                 \/ m.sender \notin users'
                 \/ m.recipient \notin users'
        /\ ( /\ response'.op \in ReviewWriteOps
             /\ response'.actor \in Users
             /\ \E r \in reviews : r.id = response'.target /\ r.user # response'.actor )
           => ( /\ response'.outcome = "PermissionError"
                /\ reviews' = reviews )
        /\ ( /\ response'.op \in MessageWriteOps
             /\ response'.actor \in Users
             /\ \E m \in messages : m.id = response'.target /\ m.sender # response'.actor )
           => ( /\ response'.outcome \in {"PermissionError", "NotFoundError"}
                /\ messages' = messages ) ]_vars

\* C17 witness: the recipient's delete of a message was refused with a
\* PermissionError and the message is still stored
C17_Witness ==
    /\ response.op = "destroy_message"
    /\ response.outcome = "PermissionError"
    /\ \E m \in messages :
          /\ m.id = response.target
          /\ m.recipient = response.actor
          /\ m.sender # response.actor

\* C18 (as claimed): there is at most one review per (property, user) pair,
\* and a well-formed creation for a pair that already has a review is
\* answered with a client error, not with a server error
C18_OneReviewPerPair ==
    /\ \A r1 \in reviews : \A r2 \in reviews :
          (r1.property = r2.property /\ r1.user = r2.user) => r1 = r2
    /\ ( /\ response.op = "create_review"
         /\ response.actor \in Users
         /\ ReviewSerializer_is_valid(response.req, FALSE)
         /\ \E r \in reviews : /\ r.property = response.req.property_id
                                /\ r.user = response.actor )
          => response.outcome = "ValidationError"

\* C19 (as claimed): a review create or update with a rating outside 1..5 is
\* answered with a ValidationError, a well-formed creation with rating 1 or 5
\* succeeds, and every stored rating is between 1 and 5
C19_RatingRange ==
    /\ ( /\ response.op \in {"create_review"} \cup ReviewUpdateOps
         /\ "rating" \in response.req.given
         /\ ~(1 <= response.req.rating /\ response.req.rating <= 5) )
          => response.outcome = "ValidationError"
    /\ ( /\ response.op = "create_review"
         /\ response.actor \in Users
         /\ ReviewSerializer_is_valid(response.req, FALSE)
         /\ response.req.rating \in {1, 5} )
          => response.outcome = "created"
    /\ \A r \in reviews : r.rating \in 1..5

\* C20: a review create or update whose comment is empty once trimmed is
\* answered with a ValidationError and stores nothing, and every stored
\* review has a non-empty comment
C20_CommentNotBlank ==
    [][ /\ ( /\ response'.op \in {"create_review"} \cup ReviewUpdateOps
             /\ "comment" \in response'.req.given
             /\ strip(response'.req.comment) = <<>> )
           => ( /\ response'.outcome = "ValidationError"
                /\ reviews' = reviews )
        /\ \A r \in reviews' : r.comment # <<>> /\ strip(r.comment) = r.comment ]_vars

\* C20 witness: the author's patch with a comment of blanks was answered with
\* a ValidationError
C20_Witness ==
    /\ response.op = "partial_update_review"
    /\ "comment" \in response.req.given
    /\ response.req.comment = <<" ">>
    /\ response.outcome = "ValidationError"
    /\ \E r \in reviews : r.id = response.target /\ r.user = response.actor

\* C21: referential integrity under the cascade rules: in every reachable
\* state every property has an existing host, every booking an existing
\* property and an existing guest, every payment an existing booking, every
\* review an existing property and author, and every message an existing
\* sender and recipient
C21_ReferentialIntegrity ==
    /\ \A p \in DOMAIN properties : properties[p].host \in users
    /\ \A b \in DOMAIN bookings :
          /\ bookings[b].property \in DOMAIN properties
          /\ bookings[b].user \in users
    /\ \A p \in payments : p.booking \in DOMAIN bookings
    /\ \A r \in reviews : r.property \in DOMAIN properties /\ r.user \in users
    /\ \A m \in messages : {m.sender, m.recipient} \subseteq users

\* C21 witness: the only booking there has been, a seeded one with a payment,
\* was deleted by its guest, and no payment is left
C21_Witness ==
    /\ response.op = "destroy"
    /\ response.outcome = "no_content"
    /\ nextBooking = 2
    /\ nextMessage = 2
    /\ response.target \notin DOMAIN bookings
    /\ payments = {}

\* the unsafe actions of the five resources, and the reads of bookings,
\* payments and messages
UnsafeOps ==
    {"create", "create_payment", "create_property", "create_review", "create_message"}
    \cup WriteOps \cup PaymentWriteOps \cup PropertyWriteOps
    \cup ReviewWriteOps \cup MessageWriteOps
PrivateReadOps ==
    {"retrieve", "list_bookings", "list_payments", "retrieve_payment", "list_messages"}

\* C22: a create, update, partial update or delete of a property, booking,
\* payment, review or message by an unauthenticated caller is answered with
\* an AuthenticationError and changes no stored record, and a read of
\* bookings, payments or messages by an unauthenticated caller returns none
C22_UnsafeNeedsAuthentication ==
    [][ /\ (response'.op \in UnsafeOps /\ response'.actor = ANON)
           => ( /\ response'.outcome = "AuthenticationError"
                /\ UNCHANGED <<properties, bookings, payments, reviews, messages, users, inflight>> )
        /\ (response'.op \in PrivateReadOps /\ response'.actor = ANON)
           => response'.result = {} ]_vars

\* C22 witness: an unauthenticated delete of a stored booking was answered
\* with an AuthenticationError and the booking is still stored
C22_Witness ==
    /\ response.op = "destroy"
    /\ response.actor = ANON
    /\ response.target \in DOMAIN bookings
    /\ response.outcome = "AuthenticationError"

UserOps == {"list_users", "retrieve_user", "write_user"}

\* C23: the users endpoint is public and read-only: a list by any caller
\* returns every user, a retrieve of an existing user by any caller returns
\* it, and no request to the endpoint, whatever its method, changes the user
\* table or any other table
C23_UsersReadOnlyPublic ==
    [][ /\ response'.op = "list_users"
           => (response'.outcome = "ok" /\ response'.result = users)
        /\ (response'.op = "retrieve_user" /\ response'.req.user_id \in users)
           => (response'.outcome = "ok" /\ response'.result = {response'.req.user_id})
        /\ response'.op = "write_user" => response'.outcome = "MethodNotAllowed"
        /\ response'.op \in UserOps
           => UNCHANGED <<users, properties, bookings, payments, reviews, messages>> ]_vars

\* C23 witness: the unauthenticated caller retrieved a user, after another
\* user's row had been deleted
C23_Witness ==
    /\ response.op = "retrieve_user"
    /\ response.actor = ANON
    /\ response.outcome = "ok"
    /\ response.result = {"u2"}
    /\ users # Users

\* the structured client errors, and the faults of the persistence layer
ClientErrors ==
    {"ValidationError", "AuthenticationError", "PermissionError", "NotFoundError"}
PersistenceFailures == {"IntegrityError"}

C26_NightCheckNeverFires ==
    [][ response'.op = "create"
          => /\ response'.detail # "Booking must be for at least one night."
             /\ ( /\ response'.actor \in users
                  /\ BookingSerializer_is_valid(response'.req, FALSE)
                  /\ response'.req.end_date <= response'.req.start_date )
                => response'.detail = "End date must be after start date."
             /\ response'.outcome = "created"
                => /\ nextBooking \in DOMAIN bookings'
                   /\ bookings'[nextBooking].end_date - bookings'[nextBooking].start_date >= 1
       ]_vars

\* C26 witness: a creation with end_date equal to start_date was rejected by
\* the date-order check
C26_Witness ==
    /\ response.op = "create"
    /\ response.req.start_date # 0
    /\ response.req.end_date = response.req.start_date
    /\ response.outcome = "ValidationError"
    /\ response.detail = "End date must be after start date."

\* C27: a booking update by its guest whose valid body carries property_id or
\* user_id is answered with the ValidationError "Property and user cannot be
\* changed after booking creation." whatever the values, the stored ones
\* included, and stores nothing; every full update ends in a client error and
\* changes no booking, so an update that succeeds is a partial one
C27_UpdateRejectsOnPresence ==
    [][ /\ ( /\ response'.op \in UpdateOps
             /\ IsGuestOf(response'.actor, response'.target)
             /\ BookingSerializer_is_valid(response'.req, response'.op = "partial_update")
             /\ \/ response'.req.property_id # ABSENT
                \/ response'.req.user_id # ABSENT )
           => ( /\ response'.outcome = "ValidationError"
                /\ response'.detail =
                      "Property and user cannot be changed after booking creation."
                /\ bookings' = bookings )
        /\ response'.op = "update"
           => ( /\ response'.outcome \in ClientErrors
                /\ bookings' = bookings ) ]_vars

\* C27 witness: the guest's full update carrying the booking's own property
\* and guest was rejected
C27_Witness ==
    /\ response.op = "update"
    /\ IsGuestOf(response.actor, response.target)
    /\ response.req.property_id = bookings[response.target].property
    /\ response.req.user_id = bookings[response.target].user
    /\ response.outcome = "ValidationError"
    /\ response.detail = "Property and user cannot be changed after booking creation."

\* C28 (as claimed): a payment creation by any authenticated user for any
\* existing booking succeeds and stores the payment, a retrieve of a stored
\* payment by a user who is neither the guest of its booking nor the host of
\* its property is answered with NotFoundError, and so is an administrator's
\* update or delete of such a payment
C28_PaymentCreationUnscoped ==
    /\ ( /\ response.op = "create_payment"
         /\ response.actor \in Users
         /\ response.req.booking_id \in DOMAIN bookings
         /\ response.req.amount # NoAmount )
          => /\ response.outcome = "created"
             /\ \E p \in payments : p.booking = response.req.booking_id
    /\ ( /\ response.op \in {"retrieve_payment"} \cup PaymentWriteOps
         /\ response.actor \in Users
         /\ response.op \in PaymentWriteOps => IsAdminUser(response.actor)
         /\ \E p \in payments : p.booking = response.target
         /\ ~IsGuestOf(response.actor, response.target)
         /\ ~IsHostOf(response.actor, response.target) )
          => response.outcome = "NotFoundError"

\* two requests ran concurrently: one arrived while the other was between
\* is_valid and perform_create
Concurrent(s, t) ==
    s # t /\ (s \in inflight[t].during \/ t \in inflight[s].during)

\* two stays share a night
Overlap(a, b) == a.start_date < b.end_date /\ b.start_date < a.end_date

\* an answered booking creation by a user with valid fields and end_date
\* after start_date
ValidCreation(s) ==
    /\ inflight[s].op = "create"
    /\ inflight[s].pc = "done"
    /\ inflight[s].actor \in Users
    /\ BookingSerializer_is_valid(inflight[s].req, FALSE)
    /\ inflight[s].req.start_date < inflight[s].req.end_date

====
